---- MODULE Spec2Model ----
(***************************************************************************)
(* The transcoding job supervisor of the Electron application:             *)
(* FFmpegService (the isProcessing flag, the fluent-ffmpeg commands it     *)
(* builds and runs, the events it emits) and the IpcConfig event bridge    *)
(* that forwards those events to the renderer window.                      *)
(*                                                                         *)
(* The main process is one Node.js event loop: every IPC handler and every *)
(* fluent-ffmpeg callback runs to its first await without interleaving, so *)
(* each of them is one atomic action here.                                 *)
(*                                                                         *)
(* The repository holds two definitions of FFmpegService.  Spec is the     *)
(* one with validation and command.run(); SpecFirst is the earlier one.    *)
(* BridgeSpec adds the life of the window, RequestSpec every output path,  *)
(* FailureSpec every engine error, and ProbeSpec is getVideoInfo.          *)
(* SideJobSpec runs thumbnails, audio extractions and merges beside the    *)
(* conversions of one file.                                                *)
(* IpcProbeSpec adds the handler that answers the renderer's probes,       *)
(* ThrowSpec the requests the command builder throws on, and UiSpec the    *)
(* FFmpegDemo component that sends the requests and receives the events.   *)
(* BuildSpec and BuildSpecFirst are the command builders of the two        *)
(* definitions over every option record, ProgressSpec the progress objects *)
(* of one conversion, and SizeSpec formatBytes over the sizes of a file.   *)
(***************************************************************************)
EXTENDS Integers, Sequences, FiniteSets, TLC

\* Bounds of the model: the commands built in a run of Spec or SpecFirst, the
\* commands built in a run of BridgeSpec, the progress lines of one command, and
\* the getVideoInfo calls made in a run of ProbeSpec and in one of SideProbeSpec.
MaxJobs == 2
MaxBridgeJobs == 1
MaxProgress == 1
MaxProbes == 3
MaxSideProbes == 1

\* The paths the requests are drawn from, and the files that exist on disk.
InputPaths == {"", "a.mov", "missing.mov"}
OutputPaths == {"a.mp4", "out/b.mp4"}
ExistingFiles == {"a.mov"}

VARIABLES
    isProcessing,   \* FFmpegService.isProcessing
    jobs,           \* the fluent-ffmpeg commands built so far, in order of creation
    dirs,           \* the directories that exist on disk
    mainWindow,     \* IpcConfig.mainWindow: "null", "live" or "destroyed"
    thrown,         \* an exception escaped from a listener during emit
    admitted,       \* how many requests were admitted since isProcessing was last false
    lastResult,     \* what the latest service call returned or threw
    probes,         \* the getVideoInfo calls made so far, in order
    ui              \* the state of the FFmpegDemo component in the window

vars == <<isProcessing, jobs, dirs, mainWindow, thrown, admitted, lastResult, probes, ui>>

Alive == {"spawned", "running"}
Exited == {"ended", "failed"}
TerminalEvents == {"conversion-completed", "conversion-error", "conversion-stopped"}

JobIds == 1..Len(jobs)
ConvertJobs == {j \in JobIds : jobs[j].kind = "convert"}
AliveJobs == {j \in JobIds : jobs[j].proc \in Alive}

\* String.prototype.trim applied to the paths of the model.
trim(path) == IF path = " " THEN "" ELSE path

\* path.dirname on the paths of the model.
dirname(filePath) == IF filePath = "out/b.mp4" THEN "out" ELSE "."

\* fs.existsSync for a file.
existsSync(path) == path \in ExistingFiles

\* validateFilePath: "ok" or the error it throws.
validateFilePath(path) ==
    IF path = "" \/ trim(path) = "" THEN "InvalidRequest" ELSE "ok"

\* validateFileExists without its existsSync test.
existenceUnchecked(path) == validateFilePath(path)

\* validateFileExists: "ok" or the error it throws.
validateFileExists(path) ==
    IF validateFilePath(path) # "ok" THEN validateFilePath(path)
    ELSE IF ~existsSync(path) THEN "NotFound"
    ELSE "ok"

\* ensureDirectoryExists: the directories on disk after the call.
ensureDirectoryExists(filePath, d) ==
    IF dirname(filePath) \notin d THEN d \cup {dirname(filePath)} ELSE d

\* The channel each listener registered by setupFFmpegHandlers sends on.
Channel ==
    [n \in {"conversion-progress", "conversion-completed", "conversion-error"} |->
        CASE n = "conversion-progress" -> "ffmpeg-progress"
          [] n = "conversion-completed" -> "ffmpeg-completed"
          [] n = "conversion-error" -> "ffmpeg-error"]

\* What a listener throws when it sends to a window that is null or destroyed.
bridgeUnguarded(w, name) ==
    IF name \notin DOMAIN Channel THEN "none"
    ELSE IF w = "live" THEN "send"
    ELSE "throw"

\* The listener of IpcConfig for event `name` with mainWindow = w:
\* "none" (nobody listens), "send" or "drop".
bridge(w, name) ==
    IF name \notin DOMAIN Channel THEN "none"
    ELSE IF w # "null" /\ w # "destroyed" THEN "send"
    ELSE "drop"

\* The Error objects the engine hands to .on('error'): the engine exited with a
\* status other than 0, or it could not be spawned or lost its pipes.
ExitNonzero == "Error: ffmpeg exited with code 1"
EngineErrors == {ExitNonzero, "Error: spawn ffmpeg ENOENT"}

\* Error.prototype.message of those objects.
message ==
    [err \in EngineErrors |->
        IF err = ExitNonzero THEN "ffmpeg exited with code 1" ELSE "spawn ffmpeg ENOENT"]

\* A listener that sends the argument of every event as it is.
payloadAsEmitted(name, arg) == arg

\* What the listener for `name` sends to the window, given the event's argument.
payload(name, arg) == IF name = "conversion-error" THEN message[arg] ELSE arg

\* this.emit(name, arg) on behalf of job record `job`: the record afterwards.
emit(job, w, name, arg) ==
    [job EXCEPT
        !.emitted = Append(@, [name |-> name, arg |-> arg]),
        !.delivered = IF bridge(w, name) = "send"
                      THEN Append(@, [channel |-> Channel[name],
                                      arg |-> payload(name, arg)])
                      ELSE @]

\* Whether emit(name) lets an exception of a listener escape.
emitThrows(w, name) == bridge(w, name) = "throw"

\* A command object just built: ffmpeg(input).output(out).on(...).
newCommand(kind, out, proc) ==
    [kind |-> kind, out |-> out, proc |-> proc, promise |-> "pending",
     nprog |-> 0, emitted |-> <<>>, delivered |-> <<>>, directives |-> <<>>]

\* ConversionOptions with the optional fields left out: "" stands for a string
\* that is not given and 0 for a number that is not given.
Request(inputPath, outputPath) ==
    [inputPath |-> inputPath, outputPath |-> outputPath, format |-> "mp4",
     quality |-> "", resolution |-> "", fps |-> 0]

\* The calls the builder makes on a command, in order: the method and its argument.
Directive(method, arg) == <<method, arg>>

\* The bitrates of the quality tiers of the second definition.
qualitySettings ==
    [quality \in {"low", "medium", "high"} |->
        CASE quality = "low" -> [videoBitrate |-> "500k", audioBitrate |-> "128k"]
          [] quality = "medium" -> [videoBitrate |-> "1000k", audioBitrate |-> "192k"]
          [] quality = "high" -> [videoBitrate |-> "2000k", audioBitrate |-> "320k"]]

\* The format part with the cases of gif and webm the wrong way round.
applyOverridesSwapped(command, options) ==
    command
    \o (IF options.resolution # "" THEN <<Directive("size", options.resolution)>> ELSE <<>>)
    \o (IF options.fps # 0 THEN <<Directive("fps", ToString(options.fps))>> ELSE <<>>)
    \o (IF options.format = "webm"
        THEN <<Directive("outputOptions", "-vf fps=10,scale=320:-1:flags=lanczos")>>
        ELSE IF options.format = "gif"
        THEN <<Directive("videoCodec", "libvpx-vp9"), Directive("audioCodec", "libvorbis")>>
        ELSE <<>>)

\* The resolution, frame rate and format part that both definitions share.
applyOverrides(command, options) ==
    command
    \o (IF options.resolution # "" THEN <<Directive("size", options.resolution)>> ELSE <<>>)
    \o (IF options.fps # 0 THEN <<Directive("fps", ToString(options.fps))>> ELSE <<>>)
    \o (IF options.format = "gif"
        THEN <<Directive("outputOptions", "-vf fps=10,scale=320:-1:flags=lanczos")>>
        ELSE IF options.format = "webm"
        THEN <<Directive("videoCodec", "libvpx-vp9"), Directive("audioCodec", "libvorbis")>>
        ELSE <<>>)

\* applyQualitySettings of the second definition: the directives of the command
\* after the call.
applyQualitySettings(command, options) ==
    LET settings == qualitySettings[IF options.quality # "" THEN options.quality
                                    ELSE "medium"]
    IN applyOverrides(
           command \o <<Directive("videoBitrate", settings.videoBitrate),
                        Directive("audioBitrate", settings.audioBitrate)>>,
           options)

\* Whether applyQualitySettings of the second definition throws: the table has
\* no entry for the quality, and settings.videoBitrate reads a property of
\* undefined.
builderThrows(options) ==
    options.quality # "" /\ options.quality \notin DOMAIN qualitySettings

\* applyQualitySettings of the first definition: a switch without a default.
applyQualitySettingsFirst(command, options) ==
    applyOverrides(
        command \o (IF options.quality \in DOMAIN qualitySettings
                    THEN <<Directive("videoBitrate",
                                     qualitySettings[options.quality].videoBitrate),
                           Directive("audioBitrate",
                                     qualitySettings[options.quality].audioBitrate)>>
                    ELSE <<>>),
        options)

\* The FFmpegDemo component as it is mounted: its useState values, the request
\* it has sent to the main process and that is not handled yet, the answer on
\* its way back, the commands whose convertVideo promise it awaits, and how many
\* of the messages sent to the window for each command its listeners have run for.
NoRequest == [op |-> "none", inputPath |-> ""]
Mounted ==
    [isProcessing |-> FALSE, progress |-> "null", outputPath |-> "", error |-> "",
     request |-> NoRequest, reply |-> "none", awaiting |-> {}, seen |-> <<>>]

\* new FFmpegService() inside new IpcConfig(mainWindow), and the component in
\* the window.
Constructed ==
    /\ isProcessing = FALSE
    /\ jobs = <<>>
    /\ dirs = {"."}
    /\ thrown = FALSE
    /\ admitted = 0
    /\ lastResult = "none"
    /\ probes = <<>>
    /\ ui = Mounted

\* The service once the application has created its window.
Init == Constructed /\ mainWindow = "live"

\* The outcome of the admission checks of convertVideo, in the order of the code.
admissionIgnoringBusy(busy, inputPath) == validateFileExists(inputPath)

admission(busy, inputPath) ==
    IF busy THEN "Busy" ELSE validateFileExists(inputPath)

\* The value convertVideo leaves in isProcessing once the request is admitted.
flagNotTaken(busy) == busy

flagOnAdmission(busy) == TRUE

\* convertVideo of the second definition, reached through 'ffmpeg-convert-video'
\* (op = "convertVideo") or through compressVideo (op = "compressVideo").
startConversion(op, options) ==
    LET r == admission(isProcessing, options.inputPath) IN
    IF r # "ok"
    THEN /\ lastResult' = r
         /\ UNCHANGED <<isProcessing, jobs, dirs, mainWindow, thrown, admitted, probes>>
    ELSE /\ Len(jobs) < MaxJobs
         /\ dirs' = ensureDirectoryExists(options.outputPath, dirs)
         /\ isProcessing' = flagOnAdmission(isProcessing)
         /\ jobs' = Append(jobs,
                emit(IF builderThrows(options)
                     THEN [newCommand("convert", options.outputPath, "none")
                              EXCEPT !.promise = "rejected"]
                     ELSE [newCommand("convert", options.outputPath, "spawned")
                              EXCEPT !.directives = applyQualitySettings(@, options)],
                     mainWindow, "conversion-started", ""))
         /\ thrown' = (thrown \/ emitThrows(mainWindow, "conversion-started"))
         /\ lastResult' = (IF builderThrows(options) THEN "TypeError" ELSE "ok")
         /\ admitted' = admitted + 1
         /\ UNCHANGED <<mainWindow, probes>>

convertVideo(options) ==
    startConversion("convertVideo", options) /\ UNCHANGED ui

\* compressVideo called with the given quality.
compressVideoAt(inputPath, outputPath, quality) ==
    /\ startConversion("compressVideo",
            [Request(inputPath, outputPath) EXCEPT !.quality = quality])
    /\ UNCHANGED ui

\* compressVideo called without a quality: the parameter defaults to medium.
compressVideo(inputPath, outputPath) ==
    compressVideoAt(inputPath, outputPath, "medium")

\* The convert job whose admission set the flag that is set now: the latest one.
Current == CHOOSE j \in ConvertJobs : \A k \in ConvertJobs : k <= j


\* The promise of a job after resolve() or reject(): settling twice changes nothing.
settle(promise, how) == IF promise = "pending" THEN how ELSE promise

\* .on('start') of convertVideo: the engine was spawned.
onStart(j) ==
    /\ j \in ConvertJobs
    /\ jobs[j].proc = "spawned"
    /\ jobs' = [jobs EXCEPT ![j] =
            emit([@ EXCEPT !.proc = "running"], mainWindow, "conversion-start", "cmd")]
    /\ thrown' = (thrown \/ emitThrows(mainWindow, "conversion-start"))
    /\ UNCHANGED <<isProcessing, dirs, mainWindow, admitted, lastResult, probes, ui>>

\* A number of JavaScript, to two decimal places, or NaN.
Num(h) == [nan |-> FALSE, hundredths |-> h]
NaN == [nan |-> TRUE, hundredths |-> 0]

\* a * n for a whole number n, and a + b: NaN in, NaN out.
times(a, n) == IF a.nan THEN NaN ELSE Num(a.hundredths * n)
plus(a, b) == IF a.nan \/ b.nan THEN NaN ELSE Num(a.hundredths + b.hundredths)

\* A string is the sequence of its characters.
Digits == {"0", "1", "2", "3", "4", "5", "6", "7", "8", "9"}
DigitValue == [c \in Digits |-> CHOOSE n \in 0..9 : ToString(n) = c]

\* String.prototype.split(sep): "" gives one empty field.
RECURSIVE splitFrom(_, _, _, _, _)
splitFrom(str, sep, i, field, fields) ==
    IF i > Len(str) THEN Append(fields, field)
    ELSE IF str[i] = sep THEN splitFrom(str, sep, i + 1, <<>>, Append(fields, field))
    ELSE splitFrom(str, sep, i + 1, Append(field, str[i]), fields)

split(str, sep) == splitFrom(str, sep, 1, <<>>, <<>>)

\* The whole number a string of digits writes.
RECURSIVE decimal(_)
decimal(str) ==
    IF str = <<>> THEN 0
    ELSE 10 * decimal(SubSeq(str, 1, Len(str) - 1)) + DigitValue[str[Len(str)]]

\* Number(str) for strings of digits, points and letters: 0 for "", the value of
\* a decimal numeral (its first two decimal places), NaN for anything else.
Number(str) ==
    LET parts == split(str, ".")
        whole == parts[1]
        frac == IF Len(parts) = 2 THEN parts[2] ELSE <<>>
        isDigits(t) == \A i \in DOMAIN t : t[i] \in Digits
        two == SubSeq(frac \o <<"0", "0">>, 1, 2)
    IN IF str = <<>> THEN Num(0)
       ELSE IF /\ Len(parts) <= 2
               /\ isDigits(whole) /\ isDigits(frac)
               /\ Len(whole) + Len(frac) > 0
       THEN Num(100 * decimal(whole) + decimal(two))
       ELSE NaN

\* parseTime: hours * 3600 + minutes * 60 + seconds of a mark of three fields,
\* 0 of any other mark.
parseTime(timeString) ==
    LET parts == split(timeString, ":")
    IN IF Len(parts) = 3
       THEN plus(plus(times(Number(parts[1]), 3600), times(Number(parts[2]), 60)),
                 Number(parts[3]))
       ELSE Num(0)

\* A property of the engine's progress object that holds a number: <<>> when
\* the property is missing, <<n>> when it is n.  Missing and 0 are both falsy.
falsy(x) == x = <<>> \/ x[1] = 0

\* Math.round(bytes / 1024 / 1024) for a size that is not negative.
megabytes(bytes) == (2 * bytes + 1048576) \div 2097152

\* The estimate with the megabytes cut down in place of rounded.
etaTruncated(targetSize) ==
    IF falsy(targetSize) THEN "Unknown"
    ELSE ToString(targetSize[1] \div 1048576) \o "MB"

\* The eta of a snapshot.
eta(targetSize) ==
    IF falsy(targetSize) THEN "Unknown"
    ELSE ToString(megabytes(targetSize[1])) \o "MB"

\* progressData of the 'progress' handler: the snapshot of one progress object.
progressData(progress) ==
    [percent |-> IF falsy(progress.percent) THEN 0 ELSE progress.percent[1],
     time |-> IF progress.timemark # <<>> THEN parseTime(progress.timemark) ELSE Num(0),
     speed |-> IF falsy(progress.currentFps) THEN "0x" ELSE ToString(progress.currentFps[1]),
     eta |-> eta(progress.targetSize)]

\* .on('progress') of convertVideo, emitting `data`.
onProgressOf(j, data) ==
    /\ j \in ConvertJobs
    /\ jobs[j].proc = "running"
    /\ jobs[j].nprog < MaxProgress
    /\ jobs' = [jobs EXCEPT ![j] =
            emit([@ EXCEPT !.nprog = @ + 1], mainWindow, "conversion-progress", data)]
    /\ thrown' = (thrown \/ emitThrows(mainWindow, "conversion-progress"))
    /\ UNCHANGED <<isProcessing, dirs, mainWindow, admitted, lastResult, probes, ui>>

\* .on('progress') of convertVideo: one progress line of the engine, whatever
\* its snapshot.
onProgress(j) == onProgressOf(j, "p")

\* .on('progress') of convertVideo: the progress object `progress` of the engine.
onProgressData(j, progress) == onProgressOf(j, progressData(progress))

\* The output path of the latest request, whichever job the handler belongs to.
outputPathOfLatest(js, j) == js[Len(js)].out

\* options.outputPath as the handlers of job j see it: the closure of its own call.
outputPathOf(js, j) == js[j].out

\* .on('end') of convertVideo: the engine exited with status 0.
onEnd(j) ==
    /\ j \in ConvertJobs
    /\ jobs[j].proc = "running"
    /\ isProcessing' = FALSE
    /\ admitted' = 0
    /\ jobs' = [jobs EXCEPT ![j] =
            emit([@ EXCEPT !.proc = "ended", !.promise = settle(@, "resolved")],
                 mainWindow, "conversion-completed", outputPathOf(jobs, j))]
    /\ thrown' = (thrown \/ emitThrows(mainWindow, "conversion-completed"))
    /\ UNCHANGED <<dirs, mainWindow, lastResult, probes, ui>>

\* .on('error') of convertVideo, called with Error object err: the engine could
\* not be spawned or failed.
onErrorWith(j, err) ==
    /\ j \in ConvertJobs
    /\ jobs[j].proc \in Alive
    /\ isProcessing' = FALSE
    /\ admitted' = 0
    /\ jobs' = [jobs EXCEPT ![j] =
            emit([@ EXCEPT !.proc = "failed", !.promise = settle(@, "rejected")],
                 mainWindow, "conversion-error", err)]
    /\ thrown' = (thrown \/ emitThrows(mainWindow, "conversion-error"))
    /\ UNCHANGED <<dirs, mainWindow, lastResult, probes, ui>>

\* .on('error') of convertVideo when the engine exits with a status other than 0.
onError(j) == onErrorWith(j, ExitNonzero)

\* A thumbnail, audio or merge request that is refused while a conversion holds
\* the flag.
runOneShotWhenIdle(op, kind, inputs, outputPath, directives) ==
    IF isProcessing \/ \E i \in 1..Len(inputs) : validateFileExists(inputs[i]) # "ok"
    THEN /\ lastResult' = (IF isProcessing THEN "Busy" ELSE "NotFound")
         /\ UNCHANGED <<isProcessing, jobs, dirs, mainWindow, thrown, admitted, probes, ui>>
    ELSE /\ Len(jobs) < MaxJobs
         /\ dirs' = ensureDirectoryExists(outputPath, dirs)
         /\ jobs' = Append(jobs,
                [newCommand(kind, outputPath,
                            IF inputs = <<>> THEN "noinput" ELSE "running")
                    EXCEPT !.directives = directives])
         /\ lastResult' = "ok"
         /\ UNCHANGED <<isProcessing, mainWindow, thrown, admitted, probes, ui>>

\* generateThumbnail, extractAudio and mergeVideos of the second definition:
\* validate every input, make the output directory, build the command and run it.
\* A command without inputs is refused by the engine wrapper before it spawns.
runOneShot(op, kind, inputs, outputPath, directives) ==
    LET bad == {i \in 1..Len(inputs) : validateFileExists(inputs[i]) # "ok"}
        first == CHOOSE i \in bad : \A k \in bad : i <= k
    IN
    IF bad # {}
    THEN /\ lastResult' = validateFileExists(inputs[first])
         /\ UNCHANGED <<isProcessing, jobs, dirs, mainWindow, thrown, admitted, probes, ui>>
    ELSE /\ Len(jobs) < MaxJobs
         /\ dirs' = ensureDirectoryExists(outputPath, dirs)
         /\ jobs' = Append(jobs,
                [newCommand(kind, outputPath,
                            IF inputs = <<>> THEN "noinput" ELSE "running")
                    EXCEPT !.directives = directives])
         /\ lastResult' = "ok"
         /\ UNCHANGED <<isProcessing, mainWindow, thrown, admitted, probes, ui>>

generateThumbnail(videoPath, outputPath) ==
    runOneShot("generateThumbnail", "thumbnail", <<videoPath>>, outputPath,
               <<Directive("seekInput", "10"), Directive("frames", "1")>>)

\* A table of codecs with wav and aac the wrong way round.
getAudioCodecSwapped(format) ==
    CASE format = "mp3" -> "libmp3lame"
      [] format = "wav" -> "aac"
      [] format = "aac" -> "pcm_s16le"

\* getAudioCodec: the codec of each format.
getAudioCodec(format) ==
    CASE format = "mp3" -> "libmp3lame"
      [] format = "wav" -> "pcm_s16le"
      [] format = "aac" -> "aac"

\* extractAudio; format "" stands for a call without the parameter, which then
\* defaults to mp3.
extractAudioAs(videoPath, outputPath, format) ==
    runOneShot("extractAudio", "audio", <<videoPath>>, outputPath,
               <<Directive("noVideo", ""),
                 Directive("audioCodec",
                           getAudioCodec(IF format = "" THEN "mp3" ELSE format))>>)

extractAudio(videoPath, outputPath) == extractAudioAs(videoPath, outputPath, "")

mergeVideos(videoPaths, outputPath) ==
    runOneShot("mergeVideos", "merge", videoPaths, outputPath, <<>>)

\* .on('end') of a thumbnail, audio or merge command.
oneShotEnd(j) ==
    /\ j \in JobIds \ ConvertJobs
    /\ jobs[j].proc = "running"
    /\ jobs' = [jobs EXCEPT ![j].proc = "ended",
                            ![j].promise = settle(@, "resolved")]
    /\ UNCHANGED <<isProcessing, dirs, mainWindow, thrown, admitted, lastResult, probes, ui>>

\* .on('error') of a thumbnail, audio or merge command.
oneShotError(j) ==
    /\ j \in JobIds \ ConvertJobs
    /\ jobs[j].proc \in {"running", "noinput"}
    /\ jobs' = [jobs EXCEPT ![j].proc = "failed",
                            ![j].promise = settle(@, "rejected")]
    /\ UNCHANGED <<isProcessing, dirs, mainWindow, thrown, admitted, lastResult, probes, ui>>

\* stopProcessing without its test of the flag.
stopUnconditional ==
    /\ isProcessing' = FALSE
    /\ admitted' = 0
    /\ jobs' = IF ConvertJobs = {} THEN jobs
               ELSE [jobs EXCEPT ![Current] = emit(@, mainWindow, "conversion-stopped", "")]
    /\ thrown' = (thrown \/ emitThrows(mainWindow, "conversion-stopped"))
    /\ lastResult' = "ok"
    /\ UNCHANGED <<dirs, mainWindow, probes, ui>>

\* FFmpegService.stopProcessing.
stopService ==
    /\ IF isProcessing
       THEN /\ isProcessing' = FALSE
            /\ admitted' = 0
            /\ jobs' = [jobs EXCEPT ![Current] =
                    emit(@, mainWindow, "conversion-stopped", "")]
            /\ thrown' = (thrown \/ emitThrows(mainWindow, "conversion-stopped"))
       ELSE UNCHANGED <<isProcessing, admitted, jobs, thrown>>
    /\ lastResult' = "ok"
    /\ UNCHANGED <<dirs, mainWindow, probes>>

\* stopProcessing, reached through 'ffmpeg-stop-processing', when the component
\* in the window is left out.
stopProcessing == stopService /\ UNCHANGED ui

\* isCurrentlyProcessing, reached through 'ffmpeg-is-processing'.
isCurrentlyProcessing ==
    /\ lastResult' = (IF isProcessing THEN "true" ELSE "false")
    /\ UNCHANGED <<isProcessing, jobs, dirs, mainWindow, thrown, admitted, probes, ui>>

(***************************************************************************)
(* getVideoInfo: the probe.  A call that passes its checks arms a timer    *)
(* and starts ffprobe; the timer and the callback of ffprobe are two       *)
(* callbacks of the event loop that may come in either order, unless the   *)
(* callback comes first and clears the timer.                              *)
(***************************************************************************)

\* statSync(path).size of the files on disk, in bytes.
statSize == [path \in ExistingFiles |-> 1536]

\* Math.floor(Math.log(bytes) / Math.log(k)) for bytes >= 1.
RECURSIVE floorLog(_, _)
floorLog(bytes, k) == IF bytes < k THEN 0 ELSE 1 + floorLog(bytes \div k, k)

\* k to the power i.
RECURSIVE pow(_, _)
pow(k, i) == IF i = 0 THEN 1 ELSE k * pow(k, i - 1)

\* (bytes / d).toFixed(2) in hundredths, for d a power of k: the quotient, and
\* the remainder over d rounded to the nearest hundredth, taken in two parts so
\* that no product leaves the integers of the model checker.
toFixed2(bytes, d, k) ==
    LET r == bytes % d
        e == d \div k
    IN (bytes \div d) * 100
       + (IF d = 1 THEN 0
          ELSE (100 * (r \div e) + (100 * (r % e)) \div e + k \div 2) \div k)

\* formatBytes with the quotient cut off after two decimals instead of rounded.
formatBytesTruncated(bytes) ==
    IF bytes = 0 THEN [hundredths |-> 0, unit |-> "Bytes"]
    ELSE LET i == floorLog(bytes, 1024)
             d == pow(1024, i)
             e == IF d = 1 THEN 1 ELSE d \div 1024
         IN [hundredths |-> (bytes \div d) * 100 + (100 * ((bytes % d) \div e)) \div 1024,
             unit |-> <<"Bytes", "KB", "MB", "GB">>[i + 1]]

\* formatBytes: the number, in hundredths as toFixed(2) rounds it (150 stands for
\* "1.5", 100 for "1": parseFloat drops the zeros), and the unit.
formatBytes(bytes) ==
    IF bytes = 0 THEN [hundredths |-> 0, unit |-> "Bytes"]
    ELSE LET sizes == <<"Bytes", "KB", "MB", "GB">>
             i == floorLog(bytes, 1024)
             d == pow(1024, i)
         IN [hundredths |-> toFixed2(bytes, d, 1024),
             unit |-> IF i + 1 \in DOMAIN sizes THEN sizes[i + 1] ELSE "undefined"]

\* parseFps of a frame rate "n/d", given as the pair of its two numbers, for the
\* rates that are whole numbers.
parseFps(fpsString) ==
    IF fpsString[2] # 0 THEN fpsString[1] \div fpsString[2] ELSE 0

\* A VideoInfo that says nothing about the file.
InfoWithoutFallback(videoPath) ==
    [duration |-> "0", size |-> formatBytes(0), bitrate |-> "0", codec |-> "unknown",
     resolution |-> "0x0", fps |-> 0]

\* The VideoInfo the callback resolves with when ffprobe reports an error.
FallbackInfo(videoPath) ==
    [duration |-> "30.5", size |-> formatBytes(statSize[videoPath]),
     bitrate |-> "1000000", codec |-> "h264", resolution |-> "1920x1080", fps |-> 30]

\* What ffprobe reports for a file it can read: with and without a video stream.
Metadata ==
    [format |-> [duration |-> "12.5", size |-> 2048, bit_rate |-> 800000],
     streams |-> <<[codec_type |-> "audio", codec_name |-> "aac", width |-> 0,
                    height |-> 0, r_frame_rate |-> <<0, 0>>],
                   [codec_type |-> "video", codec_name |-> "vp9", width |-> 640,
                    height |-> 360, r_frame_rate |-> <<25, 1>>]>>]

MetadataAudioOnly == [Metadata EXCEPT !.streams = <<Metadata.streams[1]>>]

\* Metadata of a file of the given size.
MetadataOfSize(size) == [Metadata EXCEPT !.format.size = size]

\* Metadata in which ffprobe left out what it can leave out: "" for a missing
\* string, 0 for a missing number, <<>> for a missing frame rate.
MetadataBare ==
    [format |-> [duration |-> "", size |-> 0, bit_rate |-> 0],
     streams |-> <<[codec_type |-> "video", codec_name |-> "", width |-> 640,
                    height |-> 360, r_frame_rate |-> <<>>]>>]

\* The VideoInfo the callback resolves with from the metadata of ffprobe.
InfoOf(metadata, videoStream) ==
    [duration |-> IF metadata.format.duration # "" THEN metadata.format.duration ELSE "0",
     size |-> formatBytes(metadata.format.size),
     bitrate |-> ToString(metadata.format.bit_rate),
     codec |-> IF videoStream.codec_name # "" THEN videoStream.codec_name ELSE "unknown",
     resolution |-> ToString(videoStream.width) \o "x" \o ToString(videoStream.height),
     fps |-> parseFps(IF videoStream.r_frame_rate # <<>>
                      THEN videoStream.r_frame_rate ELSE <<0, 1>>)]

\* The promise of a getVideoInfo call: pending, resolved with a VideoInfo or
\* rejected with an error.
NoInfo ==
    [duration |-> "", size |-> formatBytes(0), bitrate |-> "", codec |-> "",
     resolution |-> "", fps |-> 0]
Pending == [state |-> "pending", error |-> "", info |-> NoInfo]
Resolved(info) == [state |-> "resolved", error |-> "", info |-> info]
Rejected(error) == [state |-> "rejected", error |-> error, info |-> NoInfo]

\* A promise on which the latest resolve() or reject() wins.
settleLatest(promise, outcome) == outcome

\* resolve() and reject() of a promise: only the first of them has an effect.
settleOnce(promise, outcome) ==
    IF promise.state = "pending" THEN outcome ELSE promise

\* The checks of getVideoInfo without its existsSync test.
probeAdmissionUnchecked(videoPath) == validateFilePath(videoPath)

\* The checks of getVideoInfo before it builds its promise: "ok" or the error.
probeAdmission(videoPath) ==
    IF validateFilePath(videoPath) # "ok" THEN validateFilePath(videoPath)
    ELSE IF ~existsSync(videoPath) THEN "NotFound"
    ELSE "ok"

\* A getVideoInfo that refuses to probe while a conversion is in progress.
getVideoInfoWhenIdle(videoPath) ==
    /\ Len(probes) < MaxProbes
    /\ LET r == IF isProcessing THEN "Busy" ELSE probeAdmission(videoPath) IN
       probes' = Append(probes,
           IF r # "ok"
           THEN [path |-> videoPath, timer |-> "none", proc |-> "none",
                 cb |-> "none", promise |-> Rejected(r), reply |-> <<>>]
           ELSE [path |-> videoPath, timer |-> "armed", proc |-> "probing",
                 cb |-> "none", promise |-> Pending, reply |-> <<>>])
    /\ UNCHANGED <<isProcessing, jobs, dirs, mainWindow, thrown, admitted, lastResult, ui>>

\* getVideoInfo, up to the return of its promise.
getVideoInfo(videoPath) ==
    /\ Len(probes) < MaxProbes
    /\ LET r == probeAdmission(videoPath) IN
       probes' = Append(probes,
           IF r # "ok"
           THEN [path |-> videoPath, timer |-> "none", proc |-> "none",
                 cb |-> "none", promise |-> Rejected(r), reply |-> <<>>]
           ELSE [path |-> videoPath, timer |-> "armed", proc |-> "probing",
                 cb |-> "none", promise |-> Pending, reply |-> <<>>])
    /\ UNCHANGED <<isProcessing, jobs, dirs, mainWindow, thrown, admitted, lastResult, ui>>

\* The callback of setTimeout: the 30000 ms have passed and nothing cleared it.
onTimeout(p) ==
    /\ p \in 1..Len(probes)
    /\ probes[p].timer = "armed"
    /\ probes' = [probes EXCEPT
            ![p].timer = "fired",
            ![p].promise = settleOnce(@, Rejected("Timeout"))]
    /\ UNCHANGED <<isProcessing, jobs, dirs, mainWindow, thrown, admitted, lastResult, ui>>

\* What ffprobe calls back with: an error, or the metadata of the file.
ProbeResults == {"err", "audio-only", "video"}

\* The streams of the metadata that are video streams, by position.
videoStreams(metadata) ==
    {i \in DOMAIN metadata.streams : metadata.streams[i].codec_type = "video"}

\* A callback that answers everything but usable metadata with the fallback.
callbackFallsBack(videoPath, err, metadata) ==
    IF err \/ videoStreams(metadata) = {} THEN Resolved(FallbackInfo(videoPath))
    ELSE Resolved(InfoOf(metadata, metadata.streams[
             CHOOSE i \in videoStreams(metadata) : \A k \in videoStreams(metadata) : i <= k]))

\* The outcome the callback of ffprobe settles the promise with.
callbackOutcome(videoPath, err, metadata) ==
    IF err THEN Resolved(FallbackInfo(videoPath))
    ELSE LET found == videoStreams(metadata)
         IN IF found = {} THEN Rejected("NoVideoStream")
            ELSE Resolved(InfoOf(metadata,
                     metadata.streams[CHOOSE i \in found : \A k \in found : i <= k]))

\* The callback of ffmpeg.ffprobe, called with (err, metadata): clears the timer
\* and settles the promise.
onProbed(p, err, metadata) ==
    /\ p \in 1..Len(probes)
    /\ probes[p].proc = "probing"
    /\ probes' = [probes EXCEPT
            ![p].timer = IF @ = "armed" THEN "cleared" ELSE @,
            ![p].proc = "exited",
            ![p].cb = IF err THEN "err"
                      ELSE IF videoStreams(metadata) = {} THEN "audio-only" ELSE "video",
            ![p].promise = settleOnce(@, callbackOutcome(probes[p].path, err, metadata))]
    /\ UNCHANGED <<isProcessing, jobs, dirs, mainWindow, thrown, admitted, lastResult, ui>>

\* The callback of ffmpeg.ffprobe for each kind of result.
ffprobeCallback(p, res) ==
    onProbed(p, res = "err", IF res = "video" THEN Metadata ELSE MetadataAudioOnly)

\* What an IPC handler answers the renderer with: the value it returns, or the
\* error it throws.
Returned(value) == [how |-> "returned", value |-> value]
Threw(error) == [how |-> "threw", value |-> [message |-> error]]

\* The object the handler of 'ffmpeg-get-video-info' returns from its catch.
ErrorResponse(error) ==
    [error |-> TRUE, message |-> error, duration |-> "0",
     size |-> [hundredths |-> 0, unit |-> "Bytes"], bitrate |-> "0",
     codec |-> "unknown", resolution |-> "0x0", fps |-> 0]

\* A handler of 'ffmpeg-get-video-info' that wraps the error and throws it again,
\* as the other handlers do.
handlerRethrows(promise) ==
    IF promise.state = "resolved" THEN Returned(promise.info) ELSE Threw(promise.error)

\* The answer of the handler of 'ffmpeg-get-video-info' once the promise of
\* getVideoInfo is settled.
getVideoInfoHandler(promise) ==
    IF promise.state = "resolved" THEN Returned(promise.info)
    ELSE Returned(ErrorResponse(promise.error))

\* The handler of 'ffmpeg-get-video-info' resumes after its await and answers.
handlerReturns(p) ==
    /\ p \in 1..Len(probes)
    /\ probes[p].promise.state # "pending"
    /\ probes[p].reply = <<>>
    /\ probes' = [probes EXCEPT ![p].reply = <<getVideoInfoHandler(probes[p].promise)>>]
    /\ UNCHANGED <<isProcessing, jobs, dirs, mainWindow, thrown, admitted, lastResult, ui>>

ProbeNext ==
    \/ \E videoPath \in InputPaths : getVideoInfo(videoPath)
    \/ \E p \in 1..Len(probes) : onTimeout(p)
    \/ \E p \in 1..Len(probes), res \in ProbeResults : ffprobeCallback(p, res)

ProbeSpec == Init /\ [][ProbeNext]_vars

\* The probes as the renderer makes them, through 'ffmpeg-get-video-info'.
IpcProbeNext ==
    \/ ProbeNext
    \/ \E p \in 1..Len(probes) : handlerReturns(p)

IpcProbeSpec == Init /\ [][IpcProbeNext]_vars

\* Probes made beside the conversions: before, during and after them.
SideProbeNext ==
    \/ /\ Len(jobs) < MaxBridgeJobs
       /\ convertVideo(Request("a.mov", "a.mp4"))
    \/ stopProcessing
    \/ \E j \in JobIds : onStart(j)
    \/ \E j \in JobIds : onEnd(j)
    \/ \E j \in JobIds : onError(j)
    \/ /\ Len(probes) < MaxSideProbes
       /\ \E videoPath \in InputPaths : getVideoInfo(videoPath)
    \/ \E p \in 1..Len(probes) : onTimeout(p)
    \/ \E p \in 1..Len(probes), res \in ProbeResults : ffprobeCallback(p, res)

SideProbeSpec == Init /\ [][SideProbeNext]_vars

\* The sizes ffprobe reports, in bytes.
FormatSizes ==
    {0, 1, 1023, 1024, 1536, 1234567, 1048575, 1048576, 1073741824, 1610612736}

\* The probes of readable files of every size, and of files with bare metadata.
SizeNext ==
    \/ getVideoInfo("a.mov")
    \/ \E p \in 1..Len(probes), size \in FormatSizes :
          onProbed(p, FALSE, MetadataOfSize(size))
    \/ \E p \in 1..Len(probes) : onProbed(p, FALSE, MetadataBare)
    \/ \E p \in 1..Len(probes) : onProbed(p, TRUE, MetadataBare)

SizeSpec == Init /\ [][SizeNext]_vars

\* IpcConfig.updateMainWindow: the application hands over a new window or null.
updateMainWindow(w) ==
    /\ mainWindow' = w
    /\ UNCHANGED <<isProcessing, jobs, dirs, thrown, admitted, lastResult, probes, ui>>

\* The window the bridge refers to is closed by the user.
windowDestroyed ==
    /\ mainWindow = "live"
    /\ mainWindow' = "destroyed"
    /\ UNCHANGED <<isProcessing, jobs, dirs, thrown, admitted, lastResult, probes, ui>>

\* The lists of inputs mergeVideos is called with.
MergeInputs == {<<>>, <<"a.mov">>, <<"a.mov", "missing.mov">>}

\* The supervisor: every operation of the service and every callback of the
\* engine, with the window open throughout.
Next ==
    \/ \E i \in InputPaths :
          convertVideo(Request(i, "a.mp4"))
    \/ \E i \in InputPaths : compressVideo(i, "a.mp4")
    \/ \E i \in InputPaths : generateThumbnail(i, "a.mp4")
    \/ \E i \in InputPaths : extractAudio(i, "a.mp4")
    \/ \E is \in MergeInputs : mergeVideos(is, "a.mp4")
    \/ stopProcessing
    \/ isCurrentlyProcessing
    \/ \E j \in JobIds : onStart(j)
    \/ \E j \in JobIds : onProgress(j)
    \/ \E j \in JobIds : onEnd(j)
    \/ \E j \in JobIds : onError(j)
    \/ \E j \in JobIds : oneShotEnd(j)
    \/ \E j \in JobIds : oneShotError(j)

Spec == Init /\ [][Next]_vars

\* The event bridge: conversions, their callbacks and stop, while the window is
\* created, replaced, closed and destroyed.
BridgeInit == Constructed /\ mainWindow \in {"null", "live"}

BridgeNext ==
    \/ /\ Len(jobs) < MaxBridgeJobs
       /\ \E o \in OutputPaths : convertVideo(Request("a.mov", o))
    \/ stopProcessing
    \/ \E j \in JobIds : onStart(j)
    \/ \E j \in JobIds : onProgress(j)
    \/ \E j \in JobIds : onEnd(j)
    \/ \E j \in JobIds : onError(j)
    \/ \E w \in {"null", "live"} : updateMainWindow(w)
    \/ windowDestroyed

BridgeSpec == BridgeInit /\ [][BridgeNext]_vars

\* The requests: conversions over every input and output path, the empty output
\* path included, stop, and the engines running to their end.
RequestOutputs == OutputPaths \cup {""}

RequestNext ==
    \/ \E i \in InputPaths, o \in RequestOutputs :
          convertVideo(Request(i, o))
    \/ \E i \in InputPaths, o \in RequestOutputs : compressVideo(i, o)
    \/ stopProcessing
    \/ \E j \in JobIds : onStart(j)
    \/ \E j \in JobIds : onEnd(j)

RequestSpec == Init /\ [][RequestNext]_vars

\* The options a conversion is asked for: every format and quality, with and
\* without a resolution and a frame rate.
Formats == {"mp4", "avi", "mov", "webm", "gif"}
Qualities == {"low", "medium", "high"}

BuildOptions ==
    {[Request("a.mov", "a.mp4") EXCEPT !.format = f, !.quality = q,
                                       !.resolution = r, !.fps = n] :
        f \in Formats, q \in Qualities \cup {""}, r \in {"", "640x360"}, n \in {0, 24}}

\* The command builder: one command per run, built by any of the operations that
\* take options, and run to its end.
BuildNext ==
    \/ jobs = <<>> /\ \E options \in BuildOptions : convertVideo(options)
    \/ jobs = <<>> /\ \E q \in Qualities : compressVideoAt("a.mov", "a.mp4", q)
    \/ jobs = <<>> /\ compressVideo("a.mov", "a.mp4")
    \/ jobs = <<>> /\ \E f \in {"", "mp3", "wav", "aac"} : extractAudioAs("a.mov", "a.mp4", f)
    \/ \E j \in JobIds : onStart(j)
    \/ \E j \in JobIds : onEnd(j)
    \/ \E j \in JobIds : oneShotEnd(j)

BuildSpec == Init /\ [][BuildNext]_vars

\* The time-marks of the engine's progress objects: two well-formed marks, one
\* with a fraction of a second, one of three fields that are not numbers, one of
\* two fields, and none.
Timemarks ==
    {<<"0", "0", ":", "0", "1", ":", "3", "0">>,
     <<"0", "1", ":", "0", "0", ":", "0", "0">>,
     <<"0", "0", ":", "0", "1", ":", "3", "0", ".", "5", "0">>,
     <<"a", ":", "b", ":", "c">>,
     <<"0", "1", ":", "3", "0">>,
     <<>>}

\* The progress objects of the engine: the percent missing, negative, within and
\* above the range; the target size missing, 0, 1.5 MB and 5 MB; the frame rate
\* missing when the percent is.
ProgressObjects ==
    {[percent |-> p, timemark |-> t, currentFps |-> IF p = <<>> THEN <<>> ELSE <<30>>,
      targetSize |-> z] :
        p \in {<<>>, <<-5>>, <<50>>, <<150>>}, t \in Timemarks,
        z \in {<<>>, <<0>>, <<1572864>>, <<5242880>>}}

\* The progress of one conversion of one file: its engine reports any of the
\* progress objects, then exits or fails.
ProgressNext ==
    \/ jobs = <<>> /\ convertVideo(Request("a.mov", "a.mp4"))
    \/ \E j \in JobIds : onStart(j)
    \/ \E j \in JobIds, progress \in ProgressObjects : onProgressData(j, progress)
    \/ \E j \in JobIds : onEnd(j)
    \/ \E j \in JobIds : onError(j)

ProgressSpec == Init /\ [][ProgressNext]_vars

\* The requests whose quality the builder has no entry for, beside those it has
\* one for: conversions and compressions of one file, stop, the query of the
\* flag, and the engines ending or failing.
ThrowNext ==
    \/ \E q \in {"", "high", "ultra"} :
          convertVideo([Request("a.mov", "a.mp4") EXCEPT !.quality = q])
    \/ \E q \in {"low", "ultra"} : compressVideoAt("a.mov", "a.mp4", q)
    \/ stopProcessing
    \/ isCurrentlyProcessing
    \/ \E j \in JobIds : onStart(j)
    \/ \E j \in JobIds : onEnd(j)
    \/ \E j \in JobIds : onError(j)

ThrowSpec == Init /\ [][ThrowNext]_vars

(***************************************************************************)
(* The FFmpegDemo component in the window.  The renderer and the main      *)
(* process are two event loops: a request of the component is handled by   *)
(* the main process in a later step, and its answer and the messages sent  *)
(* to the window are handled by the component in later steps again.        *)
(***************************************************************************)

\* The state variables of the main process.
mainVars == <<isProcessing, jobs, dirs, mainWindow, thrown, admitted, lastResult, probes>>

\* The files the user may have selected: one that exists and one that has been
\* removed since.
SelectedFiles == {"a.mov", "missing.mov"}

\* How many messages of command j the listeners of the component have run for.
Seen(j) == IF j \in DOMAIN ui.seen THEN ui.seen[j] ELSE 0

\* The next message of command j that waits for the component.
Waiting(j) == jobs[j].delivered[Seen(j) + 1]

\* ui.seen after one more message of command j.
advance(seen, j) ==
    [k \in 1..(IF j > Len(seen) THEN j ELSE Len(seen)) |->
        (IF k \in DOMAIN seen THEN seen[k] ELSE 0) + (IF k = j THEN 1 ELSE 0)]

\* handleConvertVideo and handleCompressVideo up to their await: the buttons are
\* disabled while isProcessing is set.
handleStart(op, selectedFile) ==
    /\ Len(jobs) < MaxBridgeJobs
    /\ ~ui.isProcessing
    /\ ui.request = NoRequest
    /\ ui' = [ui EXCEPT !.isProcessing = TRUE, !.error = "", !.progress = "null",
                        !.request = [op |-> op, inputPath |-> selectedFile]]
    /\ UNCHANGED mainVars

handleConvertVideo(selectedFile) == handleStart("convertVideo", selectedFile)

handleCompressVideo(selectedFile) == handleStart("compressVideo", selectedFile)

\* The handlers of 'ffmpeg-convert-video' and 'ffmpeg-compress-video' for the
\* request of the component: a call that throws is answered at once, an admitted
\* one when its promise settles.
startHandler ==
    /\ ui.request.op \in {"convertVideo", "compressVideo"}
    /\ ui.reply = "none"
    /\ startConversion(ui.request.op,
            [Request(ui.request.inputPath, "a.mp4") EXCEPT !.quality = "medium"])
    /\ ui' = [ui EXCEPT !.request = NoRequest,
                        !.reply = IF lastResult' = "ok" THEN "none" ELSE "rejected",
                        !.awaiting = IF lastResult' = "ok" THEN @ \cup {Len(jobs')} ELSE @]

\* The catch of handleConvertVideo and handleCompressVideo: the call was
\* rejected, at once or when the engine of its command failed.
startRejected ==
    /\ \/ ui.reply = "rejected" /\ ui' = [ui EXCEPT !.reply = "none",
                                                       !.error = "failed",
                                                       !.isProcessing = FALSE]
       \/ \E j \in ui.awaiting :
             /\ jobs[j].promise = "rejected"
             /\ ui' = [ui EXCEPT !.awaiting = @ \ {j}, !.error = "failed",
                                 !.isProcessing = FALSE]
    /\ UNCHANGED mainVars

\* handleStopProcessing up to its await: the button is there while isProcessing
\* is set.
handleStopProcessing ==
    /\ ui.isProcessing
    /\ ui.request = NoRequest
    /\ ui' = [ui EXCEPT !.request = [op |-> "stop", inputPath |-> ""]]
    /\ UNCHANGED mainVars

\* The handler of 'ffmpeg-stop-processing' for the request of the component.
stopHandler ==
    /\ ui.request.op = "stop"
    /\ ui.reply = "none"
    /\ stopService
    /\ ui' = [ui EXCEPT !.request = NoRequest, !.reply = "stopped"]

\* handleStopProcessing after its await.
stopReturned ==
    /\ ui.reply = "stopped"
    /\ ui' = [ui EXCEPT !.reply = "none", !.isProcessing = FALSE, !.progress = "null"]
    /\ UNCHANGED mainVars

\* The listener given to onProgress, run for the next message of command j.
progressListener(j) ==
    /\ j \in JobIds
    /\ Seen(j) < Len(jobs[j].delivered)
    /\ Waiting(j).channel = "ffmpeg-progress"
    /\ ui' = [ui EXCEPT !.seen = advance(@, j), !.progress = "shown"]
    /\ UNCHANGED mainVars

\* The listener given to onCompleted, run for the next message of command j.
completedListener(j) ==
    /\ j \in JobIds
    /\ Seen(j) < Len(jobs[j].delivered)
    /\ Waiting(j).channel = "ffmpeg-completed"
    /\ ui' = [ui EXCEPT !.seen = advance(@, j), !.outputPath = Waiting(j).arg,
                        !.isProcessing = FALSE, !.progress = "null"]
    /\ UNCHANGED mainVars

\* The listener given to onError, run for the next message of command j.
errorListener(j) ==
    /\ j \in JobIds
    /\ Seen(j) < Len(jobs[j].delivered)
    /\ Waiting(j).channel = "ffmpeg-error"
    /\ ui' = [ui EXCEPT !.seen = advance(@, j), !.error = Waiting(j).arg,
                        !.isProcessing = FALSE, !.progress = "null"]
    /\ UNCHANGED mainVars

\* The component, the handlers that serve it and the engines of its commands,
\* with the window open throughout.
UiNext ==
    \/ \E f \in SelectedFiles : handleConvertVideo(f)
    \/ \E f \in SelectedFiles : handleCompressVideo(f)
    \/ startHandler
    \/ startRejected
    \/ handleStopProcessing
    \/ stopHandler
    \/ stopReturned
    \/ \E j \in JobIds : progressListener(j)
    \/ \E j \in JobIds : completedListener(j)
    \/ \E j \in JobIds : errorListener(j)
    \/ \E j \in JobIds : onStart(j)
    \/ \E j \in JobIds : onProgress(j)
    \/ \E j \in JobIds : onEnd(j)
    \/ \E j \in JobIds : onError(j)

UiSpec == Init /\ [][UiNext]_vars

\* The same with the scheduling the two event loops give: a request that was
\* sent is handled, an answer or message that arrived is handled, and an engine
\* that was spawned reports its start and exits.  Nothing makes the user click.
UiLiveSpec ==
    /\ UiSpec
    /\ WF_vars(startHandler) /\ WF_vars(startRejected)
    /\ WF_vars(stopHandler) /\ WF_vars(stopReturned)
    /\ \A j \in 1..MaxJobs :
          /\ WF_vars(progressListener(j))
          /\ WF_vars(completedListener(j))
          /\ WF_vars(errorListener(j))
          /\ WF_vars(onStart(j))
          /\ WF_vars(onEnd(j) \/ onError(j))

\* Thumbnails, audio extractions and merges beside the conversions of one file.
SideJobNext ==
    \/ convertVideo(Request("a.mov", "a.mp4"))
    \/ \E i \in InputPaths : generateThumbnail(i, "a.mp4")
    \/ \E i \in InputPaths : extractAudio(i, "a.mp4")
    \/ \E is \in MergeInputs : mergeVideos(is, "a.mp4")
    \/ \E j \in JobIds : onStart(j)
    \/ \E j \in JobIds : onEnd(j)
    \/ \E j \in JobIds : onError(j)
    \/ \E j \in JobIds : oneShotEnd(j)
    \/ \E j \in JobIds : oneShotError(j)

SideJobSpec == Init /\ [][SideJobNext]_vars

\* The failures: conversions of one file, stop, and the engines ending or
\* failing with any of their errors, before or after they report 'start'.
FailureNext ==
    \/ convertVideo(Request("a.mov", "a.mp4"))
    \/ stopProcessing
    \/ \E j \in JobIds : onStart(j)
    \/ \E j \in JobIds : onEnd(j)
    \/ \E j \in JobIds, err \in EngineErrors : onErrorWith(j, err)

FailureSpec == Init /\ [][FailureNext]_vars

(***************************************************************************)
(* The first definition of FFmpegService: no validation of the request,    *)
(* and convertVideo builds its command without ever calling run() on it.   *)
(***************************************************************************)

\* convertVideo of the first definition: the command is built, its handlers are
\* attached and the quality settings applied, and nothing runs it.
startConversionFirst(options) ==
    IF isProcessing
    THEN /\ lastResult' = "Busy"
         /\ UNCHANGED <<isProcessing, jobs, dirs, mainWindow, thrown, admitted, probes, ui>>
    ELSE /\ Len(jobs) < MaxJobs
         /\ isProcessing' = TRUE
         /\ jobs' = Append(jobs,
                emit([newCommand("convert", options.outputPath, "none")
                         EXCEPT !.directives = applyQualitySettingsFirst(@, options)],
                     mainWindow, "conversion-started", ""))
         /\ thrown' = (thrown \/ emitThrows(mainWindow, "conversion-started"))
         /\ lastResult' = "ok"
         /\ admitted' = admitted + 1
         /\ UNCHANGED <<dirs, mainWindow, probes, ui>>

convertVideoFirst(options) ==
    startConversionFirst(options)

compressVideoFirst(inputPath, outputPath) ==
    startConversionFirst([Request(inputPath, outputPath) EXCEPT !.quality = "medium"])

\* generateThumbnail, extractAudio and mergeVideos of the first definition: the
\* command is built and run at once.
runOneShotFirst(kind, inputs, outputPath, directives) ==
    /\ Len(jobs) < MaxJobs
    /\ jobs' = Append(jobs, [newCommand(kind, outputPath, "running")
                                EXCEPT !.directives = directives])
    /\ lastResult' = "ok"
    /\ UNCHANGED <<isProcessing, dirs, mainWindow, thrown, admitted, probes, ui>>

generateThumbnailFirst(videoPath, outputPath) ==
    runOneShotFirst("thumbnail", <<videoPath>>, outputPath,
                    <<Directive("seekInput", "10"), Directive("frames", "1")>>)

extractAudioFirst(videoPath, outputPath) ==
    runOneShotFirst("audio", <<videoPath>>, outputPath,
                    <<Directive("noVideo", ""), Directive("audioCodec", "libmp3lame")>>)

mergeVideosFirst(videoPaths, outputPath) ==
    runOneShotFirst("merge", videoPaths, outputPath, <<>>)

\* The handlers convertVideo attaches are left out: without run() the engine
\* never calls them.
NextFirst ==
    \/ \E i \in InputPaths :
          convertVideoFirst(Request(i, "a.mp4"))
    \/ \E i \in InputPaths : compressVideoFirst(i, "a.mp4")
    \/ generateThumbnailFirst("a.mov", "a.mp4")
    \/ extractAudioFirst("a.mov", "a.mp4")
    \/ mergeVideosFirst(<<"a.mov">>, "a.mp4")
    \/ stopProcessing
    \/ isCurrentlyProcessing
    \/ \E j \in JobIds : oneShotEnd(j)
    \/ \E j \in JobIds : oneShotError(j)

SpecFirst == Init /\ [][NextFirst]_vars

\* The command builder of the first definition.
BuildNextFirst ==
    \/ jobs = <<>> /\ \E options \in BuildOptions : convertVideoFirst(options)
    \/ jobs = <<>> /\ compressVideoFirst("a.mov", "a.mp4")
    \/ stopProcessing
    \/ isCurrentlyProcessing

BuildSpecFirst == Init /\ [][BuildNextFirst]_vars

\* Every engine process that was spawned reports 'start' and exits in the end.
EngineExits(j) ==
    /\ WF_vars(onStart(j))
    /\ WF_vars(onEnd(j) \/ onError(j))
    /\ WF_vars(oneShotEnd(j) \/ oneShotError(j))

LiveSpec == Spec /\ \A j \in 1..MaxJobs : EngineExits(j)

LiveSpecFirst == SpecFirst /\ \A j \in 1..MaxJobs : EngineExits(j)

(***************************************************************************)
(* The properties.                                                         *)
(***************************************************************************)

Emitted(js, j) == IF j \in 1..Len(js) THEN js[j].emitted ELSE <<>>
Delivered(js, j) == IF j \in 1..Len(js) THEN js[j].delivered ELSE <<>>
EventsAt(j, names) == {i \in 1..Len(jobs[j].emitted) : jobs[j].emitted[i].name \in names}
HasEvent(j, name) == EventsAt(j, {name}) # {}
HasTerminal(j) == EventsAt(j, TerminalEvents) # {}

\* A step that is a call of convertVideo or of compressVideo.
StartStep ==
    \E i \in InputPaths, o \in OutputPaths :
        \/ convertVideo(Request(i, o))
        \/ compressVideo(i, o)

\* C1: at most one engine subprocess of a job is alive at any time.
C1_AtMostOneSubprocess == Cardinality(AliveJobs) <= 1

\* C2: a convertVideo or compressVideo call made while isProcessing is set fails
\* with Busy and changes nothing: not the flag, no event, no command, no directory.
C2_BusyRejects ==
    [][(isProcessing /\ StartStep) =>
          /\ lastResult' = "Busy"
          /\ UNCHANGED <<isProcessing, jobs, dirs, mainWindow, thrown, admitted, probes>>]_vars

C2_Witness == isProcessing /\ lastResult = "Busy" /\ jobs # <<>>

\* C3: once stopped was emitted for a job, its subprocess is terminated, stopped
\* was emitted exactly once, and no progress event of the job follows it.
C3_StopTerminatesJob ==
    \A j \in ConvertJobs :
        HasEvent(j, "conversion-stopped") =>
            /\ jobs[j].proc \notin Alive
            /\ Cardinality(EventsAt(j, {"conversion-stopped"})) = 1
            /\ \A s \in EventsAt(j, {"conversion-stopped"}) :
               \A p \in EventsAt(j, {"conversion-progress"}) : p < s

\* C4: a job never has two terminal events, and has one once its subprocess exited.
C4_ExactlyOneTerminal ==
    \A j \in ConvertJobs :
        /\ Cardinality(EventsAt(j, TerminalEvents)) <= 1
        /\ jobs[j].proc \in Exited => Cardinality(EventsAt(j, TerminalEvents)) = 1

\* C5: every admitted conversion eventually has a terminal event, and the
\* supervisor is eventually idle again.
C5_StartEventuallyTerminates ==
    \A j \in 1..MaxJobs :
        /\ (j \in ConvertJobs) ~> (j \in ConvertJobs /\ HasTerminal(j))
        /\ (j \in ConvertJobs) ~> ~isProcessing

\* C6: when the supervisor is idle after a stop, the subprocess of the stopped
\* job has exited, and no later job runs alongside it.
C6_StopReleasesFully ==
    \A j \in ConvertJobs :
        HasEvent(j, "conversion-stopped") =>
            /\ ~isProcessing => jobs[j].proc \notin Alive
            /\ \A k \in ConvertJobs : k > j => ~(jobs[j].proc \in Alive /\ jobs[k].proc \in Alive)

\* C7: between two moments at which isProcessing is false, at most one start is
\* admitted: of two calls made back to back exactly one sets the flag.
C7_NeverBothAdmitted == admitted <= 1 /\ (isProcessing <=> admitted = 1)

C7_Witness ==
    /\ lastResult = "Busy"
    /\ admitted = 1
    /\ ConvertJobs # {}
    /\ jobs[Current].proc = "spawned"
    /\ Len(jobs[Current].emitted) = 1

\* The lifecycle signal a channel of the bridge carries.
Signal(channel) ==
    CASE channel = "ffmpeg-progress" -> "progress"
      [] channel = "ffmpeg-completed" -> "completed"
      [] channel = "ffmpeg-error" -> "error"
      [] OTHER -> "started"

\* C8: what reaches the observer for a job is started, then progress events, then
\* one terminal event, with nothing after it.
C8_ObserverOrder ==
    \A j \in ConvertJobs :
        LET d == jobs[j].delivered IN
        \A i \in 1..Len(d) :
            /\ (i = 1) <=> (Signal(d[i].channel) = "started")
            /\ Signal(d[i].channel) \in {"completed", "error", "stopped"} => i = Len(d)

\* C9: while the window is there and not destroyed, every lifecycle event the
\* service emits is delivered to it.
C9_BridgeDeliversAll ==
    [][\A j \in 1..MaxBridgeJobs :
          mainWindow = "live" =>
              Len(Delivered(jobs', j)) - Len(Delivered(jobs, j))
                  = Len(Emitted(jobs', j)) - Len(Emitted(jobs, j))]_vars

\* C10: an event emitted while the window is null or destroyed is dropped, no
\* listener raises, and the state change that goes with the event is made.
C10_DropsSilently ==
    [][\A j \in 1..MaxBridgeJobs :
          (mainWindow # "live" /\ Emitted(jobs', j) # Emitted(jobs, j)) =>
              LET e == Emitted(jobs', j)[Len(Emitted(jobs', j))].name IN
              /\ Delivered(jobs', j) = Delivered(jobs, j)
              /\ ~thrown'
              /\ e \in TerminalEvents => ~isProcessing'
              /\ e = "conversion-completed" => jobs'[j].proc = "ended"
              /\ e = "conversion-error" => jobs'[j].proc = "failed"]_vars

C10_Witness ==
    \E j \in ConvertJobs :
        /\ HasEvent(j, "conversion-completed")
        /\ \A i \in 1..Len(jobs[j].delivered) :
              jobs[j].delivered[i].channel # "ffmpeg-completed"
        /\ ~isProcessing
        /\ ~thrown

\* A step that is a call of convertVideo or of compressVideo with these paths.
StartWith(i, o) ==
    \/ convertVideo(Request(i, o))
    \/ compressVideo(i, o)

\* C11: a convertVideo or compressVideo call made while isProcessing is false with
\* an empty input path fails with InvalidRequest, and with the path of a file that
\* does not exist fails with NotFound; either way nothing changes: the flag stays
\* false, no command is built, no event is emitted, no directory is made.
C11_InvalidStartRejected ==
    [][\A i \in InputPaths, o \in RequestOutputs :
          (~isProcessing /\ (i = "" \/ i \notin ExistingFiles) /\ StartWith(i, o)) =>
              /\ lastResult' = (IF i = "" THEN "InvalidRequest" ELSE "NotFound")
              /\ UNCHANGED <<isProcessing, jobs, dirs, mainWindow, thrown, admitted,
                             probes>>]_vars

C11_Witness ==
    /\ lastResult = "NotFound"
    /\ ~isProcessing
    /\ jobs # <<>>
    /\ \A j \in JobIds : jobs[j].proc = "ended"
    /\ "out" \notin dirs

\* C12: no conversion is ever admitted with an empty output path: no command is
\* built for one and the flag is not set for one.
C12_OutputPathValidated == \A j \in ConvertJobs : jobs[j].out # ""

\* C13: a mergeVideos call with an empty list of inputs fails with InvalidRequest,
\* and no engine subprocess is spawned for it.
C13_EmptyMergeRejected ==
    [][mergeVideos(<<>>, "a.mp4") =>
          /\ lastResult' = "InvalidRequest"
          /\ \A j \in 1..Len(jobs') : j > Len(jobs) => jobs'[j].proc \notin Alive]_vars

\* The last element of a sequence that is not empty.
Last(seq) == seq[Len(seq)]

\* C14: when the engine of a conversion exits with status 0, isProcessing is
\* cleared and conversion-completed is emitted, and delivered to the window, with
\* the output path of the request that started that very conversion.
C14_CompletedCarriesOwnPath ==
    [][\A j \in 1..MaxJobs :
          (j \in ConvertJobs /\ jobs[j].proc = "running" /\ jobs'[j].proc = "ended") =>
              /\ ~isProcessing'
              /\ jobs'[j].emitted = Append(jobs[j].emitted,
                    [name |-> "conversion-completed", arg |-> jobs[j].out])
              /\ jobs'[j].delivered = Append(jobs[j].delivered,
                    [channel |-> "ffmpeg-completed", arg |-> jobs[j].out])]_vars

C14_Witness ==
    /\ ~isProcessing
    /\ Len(jobs) = 2
    /\ jobs[1].out # jobs[2].out
    /\ jobs[1].proc = "ended"
    /\ Last(jobs[1].delivered) = [channel |-> "ffmpeg-completed", arg |-> jobs[1].out]
    /\ jobs[2].proc \in Alive

\* C15: when the engine of a conversion fails, isProcessing is cleared and
\* conversion-error is emitted with the engine's Error, and what is delivered to
\* the window is the text of that Error.
C15_FailedCarriesEngineText ==
    [][\A j \in 1..MaxJobs :
          (j \in ConvertJobs /\ jobs[j].proc \in Alive /\ jobs'[j].proc = "failed") =>
              /\ ~isProcessing'
              /\ \E err \in EngineErrors :
                    /\ jobs'[j].emitted = Append(jobs[j].emitted,
                          [name |-> "conversion-error", arg |-> err])
                    /\ jobs'[j].delivered = Append(jobs[j].delivered,
                          [channel |-> "ffmpeg-error", arg |-> message[err]])]_vars

C15_Witness ==
    \E j \in ConvertJobs :
        /\ ~isProcessing
        /\ jobs[j].proc = "failed"
        /\ Last(jobs[j].emitted) = [name |-> "conversion-error", arg |-> ExitNonzero]
        /\ Last(jobs[j].delivered) =
              [channel |-> "ffmpeg-error", arg |-> "ffmpeg exited with code 1"]
        /\ \E k \in ConvertJobs :
              /\ jobs[k].proc = "failed"
              /\ Last(jobs[k].delivered) =
                    [channel |-> "ffmpeg-error", arg |-> "spawn ffmpeg ENOENT"]

\* C16: whatever the kind of the job, once its engine has failed a
\* conversion-error event was emitted for it.
C16_FailureSurfacesAsEvent ==
    \A j \in JobIds : jobs[j].proc = "failed" => HasEvent(j, "conversion-error")

\* C17: a stopProcessing call made while isProcessing is false changes nothing:
\* the flag stays false, no event is emitted and no command is touched.
C17_StopWhenIdleIsNoop ==
    [][(~isProcessing /\ stopProcessing) =>
          UNCHANGED <<isProcessing, jobs, dirs, mainWindow, thrown, admitted, probes>>]_vars

C17_Witness == ~isProcessing /\ lastResult = "ok" /\ jobs = <<>>


ProbeIds == 1..Len(probes)

\* C18: once the timer of a probe has fired, the promise of the probe is rejected
\* with Timeout and stays so whatever ffprobe calls back with later; and the
\* promise of a probe, once settled, never changes.
C18_TimeoutIsFinal ==
    [][\A p \in 1..MaxProbes :
          /\ (p \in 1..Len(probes') /\ probes'[p].timer = "fired") =>
                probes'[p].promise = Rejected("Timeout")
          /\ (p \in ProbeIds /\ probes[p].promise.state # "pending") =>
                probes'[p].promise = probes[p].promise]_vars

C18_Witness ==
    \E p, q, r \in ProbeIds :
        /\ {probes[p].cb, probes[q].cb} = {"err", "video"}
        /\ \A x \in {p, q} :
              /\ probes[x].timer = "fired"
              /\ probes[x].proc = "exited"
              /\ probes[x].promise = Rejected("Timeout")
        /\ probes[r].cb = "video"
        /\ probes[r].timer = "cleared"
        /\ probes[r].promise.state = "resolved"

\* C19 as the specification states it: whenever ffprobe has reported an error for
\* an existing file, the promise is resolved with the fallback VideoInfo.
C19_FallbackAlways ==
    \A p \in ProbeIds :
        probes[p].cb = "err" => probes[p].promise = Resolved(FallbackInfo(probes[p].path))

\* C19, amended: when ffprobe reports an error before the timer has fired, the
\* promise is resolved with duration 30.5, codec h264, resolution 1920x1080, fps 30
\* and the formatted size of the file; when the timer has fired first, the promise
\* stays rejected with Timeout.
C19_FallbackUnlessTimedOut ==
    \A p \in ProbeIds :
        probes[p].cb = "err" =>
            IF probes[p].timer = "fired"
            THEN probes[p].promise = Rejected("Timeout")
            ELSE /\ probes[p].promise.state = "resolved"
                 /\ probes[p].promise.info =
                       [duration |-> "30.5", size |-> formatBytes(statSize[probes[p].path]),
                        bitrate |-> "1000000", codec |-> "h264",
                        resolution |-> "1920x1080", fps |-> 30]
                 /\ probes[p].promise.info.size = [hundredths |-> 150, unit |-> "KB"]

C19_Witness ==
    \E p \in ProbeIds :
        /\ probes[p].cb = "err"
        /\ probes[p].timer = "cleared"
        /\ probes[p].promise.state = "resolved"
        /\ probes[p].promise.info.duration = "30.5"

\* C20: a probe of a path without a file is rejected with NotFound, and neither
\* ffprobe nor the timer was ever started for it.
C20_MissingFileNotProbed ==
    \A p \in ProbeIds :
        (probes[p].path # "" /\ probes[p].path \notin ExistingFiles) =>
            /\ probes[p].promise = Rejected("NotFound")
            /\ probes[p].proc = "none"
            /\ probes[p].timer = "none"

C20_Witness ==
    \E p \in ProbeIds :
        /\ probes[p].path = "missing.mov"
        /\ probes[p].promise = Rejected("NotFound")

FormattedSize ==
    [size \in FormatSizes |->
        CASE size = 0 -> [hundredths |-> 0, unit |-> "Bytes"]
          [] size = 1 -> [hundredths |-> 100, unit |-> "Bytes"]
          [] size = 1023 -> [hundredths |-> 102300, unit |-> "Bytes"]
          [] size = 1024 -> [hundredths |-> 100, unit |-> "KB"]
          [] size = 1536 -> [hundredths |-> 150, unit |-> "KB"]
          [] size = 1234567 -> [hundredths |-> 118, unit |-> "MB"]
          [] size = 1048575 -> [hundredths |-> 102400, unit |-> "KB"]
          [] size = 1048576 -> [hundredths |-> 100, unit |-> "MB"]
          [] size = 1073741824 -> [hundredths |-> 100, unit |-> "GB"]
          [] size = 1610612736 -> [hundredths |-> 150, unit |-> "GB"]]

\* C29: the size a probe reports for a file of `size` bytes is the size divided by
\* the largest power of 1024 that does not exceed it, rounded to two decimals,
\* with the unit of that power: Bytes, KB, MB or GB.
C29_FormatBytes ==
    [][\A p \in 1..MaxProbes, size \in FormatSizes :
          onProbed(p, FALSE, MetadataOfSize(size)) =>
              (probes'[p].timer = "cleared" =>
                  /\ probes'[p].promise.state = "resolved"
                  /\ probes'[p].promise.info.size = FormattedSize[size])]_vars

C29_Witness ==
    \E p, q, r \in ProbeIds :
        /\ probes[p].promise.info.size = [hundredths |-> 0, unit |-> "Bytes"]
        /\ probes[p].promise.info.codec = "vp9"
        /\ probes[q].promise.info.size = [hundredths |-> 150, unit |-> "KB"]
        /\ probes[r].promise.info.size = [hundredths |-> 100, unit |-> "GB"]

\* C22: a getVideoInfo call is answered from its path alone, whether or not a
\* conversion is in progress, and no step of a probe (the call, the timer, the
\* callback of ffprobe) changes isProcessing or any conversion.
C22_ProbeLeavesJobStateAlone ==
    [][/\ \A videoPath \in InputPaths :
             getVideoInfo(videoPath) =>
                 LET probe == probes'[Len(probes')] IN
                 IF videoPath = "a.mov"
                 THEN probe.promise = Pending /\ probe.proc = "probing"
                 ELSE probe.promise.state = "rejected" /\ probe.proc = "none"
       /\ probes' # probes =>
             UNCHANGED <<isProcessing, jobs, dirs, mainWindow, thrown, admitted,
                         lastResult>>]_vars

C22_Witness ==
    /\ isProcessing
    /\ Len(jobs) = 1
    /\ jobs[1].proc = "running"
    /\ Len(probes) = 1
    /\ probes[1].promise.state = "resolved"
    /\ probes[1].timer = "cleared"

\* The directives of the command a step has just built, as a set.
Built == {jobs'[Len(jobs')].directives[i] : i \in DOMAIN jobs'[Len(jobs')].directives}

\* The methods that choose a codec or a filter.
CodecMethods == {"outputOptions", "videoCodec", "audioCodec"}

\* C26: the command of a conversion, by either definition of the service, has the
\* video and audio bitrate of its quality: 500k/128k for low, 1000k/192k for
\* medium, 2000k/320k for high, and the medium pair when no quality is given.
C26_QualityBitrates ==
    [][\A options \in BuildOptions :
          ((convertVideo(options) \/ convertVideoFirst(options)) /\ Len(jobs') = Len(jobs) + 1) =>
              LET pair == CASE options.quality = "low" -> <<"500k", "128k">>
                            [] options.quality = "high" -> <<"2000k", "320k">>
                            [] OTHER -> <<"1000k", "192k">>
              IN /\ {d \in Built : d[1] = "videoBitrate"} = {<<"videoBitrate", pair[1]>>}
                 /\ {d \in Built : d[1] = "audioBitrate"} = {<<"audioBitrate", pair[2]>>}]_vars

\* C27: the command of a conversion has the filter chain of gif for format gif,
\* the codecs libvpx-vp9 and libvorbis for format webm and no codec or filter for
\* any other format; it has a size directive exactly when a resolution is given
\* and a frame-rate directive exactly when a frame rate is given.
C27_FormatDirectives ==
    [][\A options \in BuildOptions :
          (convertVideo(options) /\ Len(jobs') = Len(jobs) + 1) =>
              /\ {d \in Built : d[1] \in CodecMethods} =
                    (CASE options.format = "gif" ->
                            {<<"outputOptions", "-vf fps=10,scale=320:-1:flags=lanczos">>}
                       [] options.format = "webm" ->
                            {<<"videoCodec", "libvpx-vp9">>, <<"audioCodec", "libvorbis">>}
                       [] OTHER -> {})
              /\ {d \in Built : d[1] = "size"} =
                    (IF options.resolution # "" THEN {<<"size", options.resolution>>} ELSE {})
              /\ {d \in Built : d[1] = "fps"} =
                    (IF options.fps # 0 THEN {<<"fps", ToString(options.fps)>>} ELSE {})]_vars

C27_Witness ==
    /\ Len(jobs) = 1
    /\ jobs[1].proc = "ended"
    /\ jobs[1].directives =
          <<<<"videoBitrate", "2000k">>, <<"audioBitrate", "320k">>, <<"size", "640x360">>,
            <<"fps", "24">>, <<"videoCodec", "libvpx-vp9">>, <<"audioCodec", "libvorbis">>>>

\* C28: the command of an audio extraction is a no-video command with the codec
\* libmp3lame for mp3, pcm_s16le for wav and aac for aac, and that of mp3 when no
\* format is given.
C28_AudioCodec ==
    [][\A f \in {"", "mp3", "wav", "aac"} :
          (extractAudioAs("a.mov", "a.mp4", f) /\ Len(jobs') = Len(jobs) + 1) =>
              jobs'[Len(jobs')].directives =
                  <<<<"noVideo", "">>,
                    <<"audioCodec", CASE f = "wav" -> "pcm_s16le"
                                      [] f = "aac" -> "aac"
                                      [] OTHER -> "libmp3lame">>>>]_vars

C28_Witness ==
    /\ Len(jobs) = 1
    /\ jobs[1].kind = "audio"
    /\ jobs[1].proc = "ended"
    /\ jobs[1].directives = <<<<"noVideo", "">>, <<"audioCodec", "pcm_s16le">>>>

\* The snapshots a job's progress events were delivered to the window with.
Snapshots(j) ==
    {jobs[j].delivered[i].arg :
        i \in {k \in DOMAIN jobs[j].delivered : jobs[j].delivered[k].channel = "ffmpeg-progress"}}

\* The snapshot the window has just received.
Sent == jobs'[1].delivered[Len(jobs'[1].delivered)].arg

\* The whole seconds of a time-mark: hours * 3600 + minutes * 60 + seconds with
\* the fraction of each field cut off and a field that is no number read as 0;
\* 0 for a mark that is not of three fields.
parseTimeWhole(timeString) ==
    LET parts == split(timeString, ":")
        whole(a) == IF a.nan THEN 0 ELSE (a.hundredths \div 100) * 100
    IN IF Len(parts) = 3
       THEN Num(whole(Number(parts[1])) * 3600 + whole(Number(parts[2])) * 60
                + whole(Number(parts[3])))
       ELSE Num(0)

\* C23: the time of a snapshot is hours * 3600 + minutes * 60 + seconds of its
\* time-mark with the fraction of a second cut off, and 0 for a mark that is not
\* of three numeric fields.
C23_TimeWholeSeconds ==
    [][\A progress \in ProgressObjects :
          onProgressData(1, progress) => Sent.time = parseTimeWhole(progress.timemark)]_vars

\* C24: the percent of every progress event delivered to the window lies
\* between 0 and 100.
C24_PercentInRange ==
    \A j \in JobIds : \A snapshot \in Snapshots(j) : snapshot.percent \in 0..100

\* C25 as stated: the estimate is the target size in megabytes, rounded, whenever
\* the engine supplies one, and "Unknown" when it supplies none.
C25_EtaWheneverSupplied ==
    [][\A progress \in ProgressObjects :
          onProgressData(1, progress) =>
              Sent.eta = CASE progress.targetSize = <<>> -> "Unknown"
                           [] progress.targetSize = <<0>> -> "0MB"
                           [] progress.targetSize = <<1572864>> -> "2MB"
                           [] progress.targetSize = <<5242880>> -> "5MB"]_vars

\* C25: the estimate is the target size in megabytes, rounded, when the engine
\* supplies a size other than 0, and "Unknown" when it supplies none or 0; no
\* progress object, however partial, ends the job, releases the flag or throws.
C25_EtaOfNonzeroSize ==
    [][\A progress \in ProgressObjects :
          onProgressData(1, progress) =>
              /\ Sent.eta = CASE progress.targetSize \in {<<>>, <<0>>} -> "Unknown"
                              [] progress.targetSize = <<1572864>> -> "2MB"
                              [] progress.targetSize = <<5242880>> -> "5MB"
              /\ jobs'[1].proc = "running"
              /\ isProcessing' = isProcessing
              /\ thrown' = thrown
              /\ ~\E i \in DOMAIN jobs'[1].emitted : jobs'[1].emitted[i].name \in TerminalEvents]_vars

C25_Witness ==
    /\ Len(jobs) = 1
    /\ jobs[1].proc = "ended"
    /\ \E snapshot \in Snapshots(1) :
          snapshot.eta = "2MB" /\ snapshot.time = NaN /\ snapshot.percent = 0

\* C30: the end or error callback of a conversion that was stopped leaves the
\* flag set while a conversion admitted after it is alive and not stopped.
C30_LateCallbackKeepsBusy ==
    [][\A a \in JobIds :
          ( /\ onEnd(a) \/ onError(a)
            /\ HasEvent(a, "conversion-stopped")
            /\ isProcessing
            /\ \E b \in ConvertJobs :
                  b > a /\ jobs[b].proc \in Alive /\ ~HasEvent(b, "conversion-stopped") )
          => isProcessing']_vars

\* C31: the promise of a conversion is resolved only if conversion-completed was
\* emitted for it and conversion-stopped was not, and rejected only if
\* conversion-error was emitted for it.
C31_PromiseAgreesWithTerminal ==
    \A j \in ConvertJobs :
        /\ jobs[j].promise = "resolved" =>
              HasEvent(j, "conversion-completed") /\ ~HasEvent(j, "conversion-stopped")
        /\ jobs[j].promise = "rejected" => HasEvent(j, "conversion-error")

\* The promise of job j of the next state has just been rejected.
Rejects(j) ==
    /\ jobs'[j].promise = "rejected"
    /\ j \in JobIds => jobs[j].promise = "pending"

\* C32: a step that rejects the promise of a conversion leaves isProcessing
\* false, so that the next start is not answered with Busy.
C32_RejectionReleasesFlag ==
    [][(\E j \in 1..Len(jobs') : jobs'[j].kind = "convert" /\ Rejects(j))
          => ~isProcessing']_vars

\* A step that is a call of generateThumbnail, extractAudio or mergeVideos with
\* files that exist.
OneShotCall ==
    \/ generateThumbnail("a.mov", "a.mp4")
    \/ extractAudio("a.mov", "a.mp4")
    \/ mergeVideos(<<"a.mov">>, "a.mp4")

\* A step of a thumbnail, audio or merge job: its call or a callback of its engine.
OneShotStep ==
    \/ \E i \in InputPaths : generateThumbnail(i, "a.mp4") \/ extractAudio(i, "a.mp4")
    \/ \E is \in MergeInputs : mergeVideos(is, "a.mp4")
    \/ \E j \in JobIds : oneShotEnd(j) \/ oneShotError(j)

\* C33: a thumbnail, audio or merge request with files that exist is admitted
\* whether or not a conversion is in progress; no step of such a job changes
\* isProcessing or emits an event; and a conversion requested while such a job
\* runs and the flag is clear is admitted.
C33_OneShotsLeaveFlagAlone ==
    [][/\ OneShotCall =>
             /\ lastResult' = "ok"
             /\ Len(jobs') = Len(jobs) + 1
             /\ jobs'[Len(jobs')].proc = "running"
       /\ OneShotStep =>
             /\ isProcessing' = isProcessing
             /\ admitted' = admitted
             /\ \A j \in 1..Len(jobs') :
                   /\ Emitted(jobs', j) = Emitted(jobs, j)
                   /\ Delivered(jobs', j) = Delivered(jobs, j)
       /\ ( /\ convertVideo(Request("a.mov", "a.mp4"))
            /\ ~isProcessing
            /\ \E j \in JobIds \ ConvertJobs : jobs[j].proc = "running" )
          => /\ lastResult' = "ok"
             /\ isProcessing'
             /\ jobs'[Len(jobs')].kind = "convert"
             /\ jobs'[Len(jobs')].proc = "spawned"]_vars

C33_Witness ==
    /\ isProcessing
    /\ Len(jobs) = 2
    /\ jobs[1].kind = "convert" /\ jobs[1].proc = "running"
    /\ jobs[2].kind = "merge" /\ jobs[2].proc = "ended"
    /\ jobs[2].emitted = <<>>

\* C34: the handler of 'ffmpeg-get-video-info' never throws: for a probe that
\* failed, of an empty path, of a missing file, of a file without a video stream
\* or by its timer, it returns the value flagged error with duration 0, size
\* "0 Bytes", bitrate "0", codec "unknown", resolution "0x0" and fps 0, and for a
\* probe that succeeded it returns the VideoInfo of the probe.
C34_ProbeHandlerNeverThrows ==
    \A p \in ProbeIds :
        probes[p].reply # <<>> =>
            LET answer == probes[p].reply[1] IN
            /\ answer.how = "returned"
            /\ probes[p].promise.state = "rejected" =>
                  /\ probes[p].promise.error \in
                        {"InvalidRequest", "NotFound", "NoVideoStream", "Timeout"}
                  /\ answer.value.error = TRUE
                  /\ answer.value.duration = "0"
                  /\ answer.value.size = [hundredths |-> 0, unit |-> "Bytes"]
                  /\ answer.value.bitrate = "0"
                  /\ answer.value.codec = "unknown"
                  /\ answer.value.resolution = "0x0"
                  /\ answer.value.fps = 0
            /\ probes[p].promise.state = "resolved" =>
                  /\ answer.value \in {FallbackInfo(probes[p].path),
                                        InfoOf(Metadata, Metadata.streams[2])}
                  /\ answer.value = probes[p].promise.info

C34_Witness ==
    /\ Len(probes) = 3
    /\ \A p \in ProbeIds : probes[p].reply # <<>>
    /\ {probes[p].promise.error : p \in ProbeIds} = {"", "Timeout", "NoVideoStream"}

\* C35, its first half: with the window open and every engine exiting, the
\* isProcessing of the component does not stay set for ever.
C35_FlagEventuallyClears == ui.isProcessing ~> ~ui.isProcessing

\* C35, its second half: once the component has stopped a command, the listeners
\* run for a later completed or error message of that command change neither the
\* output path nor the error the component shows.
C35_StoppedJobNotShownFinished ==
    [][\A j \in JobIds :
          ( /\ completedListener(j) \/ errorListener(j)
            /\ HasEvent(j, "conversion-stopped")
            /\ ui.request.op # "stop" /\ ui.reply # "stopped" )
          => ui'.outputPath = ui.outputPath /\ ui'.error = ui.error]_vars

====
